---- MODULE Spec2Model ----
(***************************************************************************)
(* Model of scripts/clear_cache.py: main() reads a token and a pull        *)
(* request id, lists the repository's action caches and deletes, one at a  *)
(* time, every listed cache whose ref is "refs/pull/<id>/merge".           *)
(*                                                                         *)
(* The provider (the list it returns and the outcome of every request) is  *)
(* the environment: the list is chosen in Init, the outcome of a request   *)
(* is chosen when it completes.  urlopen either returns, raises HTTPError, *)
(* raises URLError, or raises an exception that is neither (for instance   *)
(* http.client.RemoteDisconnected or ConnectionResetError, which           *)
(* getresponse() raises and urllib does not wrap).  The list body is taken *)
(* to follow the provider's schema (an "actions_caches" array of objects   *)
(* with "id" and "ref").                                                   *)
(***************************************************************************)
EXTENDS Integers, Sequences, FiniteSets, TLC

\* Bound: the longest list the provider returns.
MaxCaches == 3

\* Pull-request identifiers given on the command line (any string is accepted).
PrIds == {"42", "4"}

\* Refs the provider's entries carry: the merge ref of either id, a head ref,
\* and a ref differing from a merge ref only by case.
RefSet == {"refs/pull/42/merge", "refs/pull/42/head", "refs/pull/4/merge", "refs/pull/42/MERGE"}

\* Identifiers of the provider's entries; distinct within one list.
IdSet == 1..MaxCaches

\* Status codes of a DELETE's HTTP error response.
HttpCodes == {404, 500}

\* os.environ with and without the token (present may be empty).
NoEnv == [n \in {} |-> ""]
Envs == {NoEnv} \cup {[n \in {"GITHUB_TOKEN"} |-> t] : t \in {"", "tok"}}

\* sys.argv: the script name, then possibly the pull-request id.
Argvs == {<<"clear_cache.py">>} \cup {<<"clear_cache.py", p>> : p \in PrIds}

Entry == [id : IdSet, ref : RefSet]

CacheLists ==
    {s \in UNION {[1..n -> Entry] : n \in 0..MaxCaches} :
        \A a, b \in DOMAIN s : a # b => s[a].id # s[b].id}

VARIABLES
    env,        \* os.environ
    argv,       \* sys.argv
    remote,     \* the entries the provider holds, in the order it lists them
    pc,         \* position of main()
    key,        \* local key
    pr_id,      \* local pr_id
    ref,        \* local ref
    caches,     \* local caches (the parsed list response)
    i,          \* position of the for loop in caches
    id,         \* local id
    requests,   \* every request issued so far, in order
    inflight,   \* requests issued and not yet completed
    listResult, \* outcome of the list request
    result,     \* outcome of the DELETE of each listed position
    code,       \* status code of each DELETE's HTTP error response (0: none)
    console,    \* lines printed to standard output, in order
    raised,     \* the unhandled exception, if any, and where it was raised
    exit        \* the exit status once the process has ended

vars == <<env, argv, remote, pc, key, pr_id, ref, caches, i, id, requests,
          inflight, listResult, result, code, console, raised, exit>>

\* Line 14.
URL == "https://api.github.com/repos/ClementTsang/bottom/actions/caches"

\* Lines 17-21.
cache_list_request(k) ==
    [method |-> "GET", url |-> URL, id |-> 0,
     accept |-> "application/vnd.github+json", authorization |-> "Bearer " \o k]

\* Lines 24-28.  The entry id stands for the "/<id>" suffix of the URL.
delete_cache_request(k, n) ==
    [method |-> "DELETE", url |-> URL \o "/", id |-> n,
     accept |-> "application/vnd.github+json", authorization |-> "Bearer " \o k]

\* Line 38.
RefOf(p) == "refs/pull/" \o p \o "/merge"

\* Line 44.
Matches(cache, r) == cache.ref = r

\* An unhandled exception ends the process with status 1.
Crash(exc, at) ==
    /\ raised' = <<[exc |-> exc, at |-> at]>>
    /\ exit' = <<1>>
    /\ pc' = "crashed"

Init ==
    /\ env \in Envs
    /\ argv \in Argvs
    /\ remote \in CacheLists
    /\ pc = "key"
    /\ key = ""
    /\ pr_id = ""
    /\ ref = ""
    /\ caches = <<>>
    /\ i = 0
    /\ id = 0
    /\ requests = <<>>
    /\ inflight = {}
    /\ listResult = "none"
    /\ result = [k \in 1..MaxCaches |-> "none"]
    /\ code = [k \in 1..MaxCaches |-> 0]
    /\ console = <<>>
    /\ raised = <<>>
    /\ exit = <<>>

\* Line 36: key = env["GITHUB_TOKEN"].
ReadKey ==
    /\ pc = "key"
    /\ "GITHUB_TOKEN" \in DOMAIN env
    /\ key' = env["GITHUB_TOKEN"]
    /\ pc' = "arg"
    /\ UNCHANGED <<env, argv, remote, pr_id, ref, caches, i, id, requests,
                   inflight, listResult, result, code, console, raised, exit>>

\* Line 36 raising KeyError.
ReadKeyMissing ==
    /\ pc = "key"
    /\ "GITHUB_TOKEN" \notin DOMAIN env
    /\ Crash("KeyError", "key")
    /\ UNCHANGED <<env, argv, remote, key, pr_id, ref, caches, i, id, requests,
                   inflight, listResult, result, code, console>>

\* Line 37: pr_id = args[1] (the second element of argv).
ReadArg ==
    /\ pc = "arg"
    /\ Len(argv) >= 2
    /\ pr_id' = argv[2]
    /\ pc' = "ref"
    /\ UNCHANGED <<env, argv, remote, key, ref, caches, i, id, requests,
                   inflight, listResult, result, code, console, raised, exit>>

\* ReadArgMissing with a default in place of the missing argument.
ReadArgMissing_Default ==
    /\ pc = "arg"
    /\ Len(argv) < 2
    /\ pr_id' = ""
    /\ pc' = "ref"
    /\ UNCHANGED <<env, argv, remote, key, ref, caches, i, id, requests,
                   inflight, listResult, result, code, console, raised, exit>>

\* Line 37 raising IndexError.
ReadArgMissing ==
    /\ pc = "arg"
    /\ Len(argv) < 2
    /\ Crash("IndexError", "arg")
    /\ UNCHANGED <<env, argv, remote, key, pr_id, ref, caches, i, id, requests,
                   inflight, listResult, result, code, console>>

\* Line 38.
FormatRef ==
    /\ pc = "ref"
    /\ ref' = RefOf(pr_id)
    /\ pc' = "list"
    /\ UNCHANGED <<env, argv, remote, key, pr_id, caches, i, id, requests,
                   inflight, listResult, result, code, console, raised, exit>>

\* Line 40: urlopen(cache_list_request(key)) sends the request and blocks.
ListSend ==
    /\ pc = "list"
    /\ requests' = Append(requests, cache_list_request(key))
    /\ inflight' = inflight \cup {0}
    /\ listResult' = "pending"
    /\ pc' = "list_wait"
    /\ UNCHANGED <<env, argv, remote, key, pr_id, ref, caches, i, id,
                   result, code, console, raised, exit>>

\* Lines 40-42: the list request succeeds; the body is parsed.
ListOk ==
    /\ pc = "list_wait"
    /\ inflight' = inflight \ {0}
    /\ listResult' = "ok"
    /\ caches' = remote
    /\ i' = 1
    /\ pc' = "loop"
    /\ UNCHANGED <<env, argv, remote, key, pr_id, ref, id, requests,
                   result, code, console, raised, exit>>

\* ListFail with the exception caught and an empty list looped over.
ListFail_Caught ==
    /\ pc = "list_wait"
    /\ \E e \in {"HTTPError", "URLError", "OtherError"} : listResult' = e
    /\ inflight' = inflight \ {0}
    /\ caches' = <<>>
    /\ i' = 1
    /\ pc' = "loop"
    /\ UNCHANGED <<env, argv, remote, key, pr_id, ref, id, requests,
                   result, code, console, raised, exit>>

\* Line 40: urlopen raises; nothing encloses the call, so the exception ends
\* the process.
ListFail ==
    /\ pc = "list_wait"
    /\ \E e \in {"HTTPError", "URLError", "OtherError"} :
          /\ listResult' = e
          /\ Crash(e, "list")
    /\ inflight' = inflight \ {0}
    /\ UNCHANGED <<env, argv, remote, key, pr_id, ref, caches, i, id, requests,
                   result, code, console>>

\* Line 43: the for loop is exhausted; main returns and the process exits 0.
LoopExit ==
    /\ pc = "loop"
    /\ i > Len(caches)
    /\ pc' = "done"
    /\ exit' = <<0>>
    /\ UNCHANGED <<env, argv, remote, key, pr_id, ref, caches, i, id, requests,
                   inflight, listResult, result, code, console, raised>>

\* Lines 43-44: the next entry's ref differs from ref; it is passed over.
SkipEntry ==
    /\ pc = "loop"
    /\ i <= Len(caches)
    /\ ~Matches(caches[i], ref)
    /\ i' = i + 1
    /\ UNCHANGED <<env, argv, remote, pc, key, pr_id, ref, caches, id, requests,
                   inflight, listResult, result, code, console, raised, exit>>

\* Lines 43-45: the next entry's ref equals ref; id = cache["id"].
SelectEntry ==
    /\ pc = "loop"
    /\ i <= Len(caches)
    /\ Matches(caches[i], ref)
    /\ id' = caches[i].id
    /\ pc' = "try"
    /\ UNCHANGED <<env, argv, remote, key, pr_id, ref, caches, i, requests,
                   inflight, listResult, result, code, console, raised, exit>>

\* Line 47.
PrintDeleting ==
    /\ pc = "try"
    /\ console' = Append(console, [kind |-> "deleting", id |-> id, code |-> 0])
    /\ pc' = "delete"
    /\ UNCHANGED <<env, argv, remote, key, pr_id, ref, caches, i, id, requests,
                   inflight, listResult, result, code, raised, exit>>

\* DeleteSend not waiting for the response before the loop goes on.
DeleteSend_NoWait ==
    /\ pc = "delete"
    /\ requests' = Append(requests, delete_cache_request(key, id))
    /\ inflight' = inflight \cup {i}
    /\ result' = [result EXCEPT ![i] = "pending"]
    /\ i' = i + 1
    /\ pc' = "loop"
    /\ UNCHANGED <<env, argv, remote, key, pr_id, ref, caches, id,
                   listResult, code, console, raised, exit>>

\* Line 48: urlopen(delete_cache_request(key, id)) sends the request and blocks.
DeleteSend ==
    /\ pc = "delete"
    /\ requests' = Append(requests, delete_cache_request(key, id))
    /\ inflight' = inflight \cup {i}
    /\ result' = [result EXCEPT ![i] = "pending"]
    /\ pc' = "delete_wait"
    /\ UNCHANGED <<env, argv, remote, key, pr_id, ref, caches, i, id,
                   listResult, code, console, raised, exit>>

\* Lines 48, 53-54: urlopen returns; the else clause prints the success line.
DeleteOk ==
    /\ pc = "delete_wait"
    /\ inflight' = inflight \ {i}
    /\ result' = [result EXCEPT ![i] = "ok"]
    /\ console' = Append(console, [kind |-> "success", id |-> id, code |-> 0])
    /\ i' = i + 1
    /\ pc' = "loop"
    /\ UNCHANGED <<env, argv, remote, key, pr_id, ref, caches, id, requests,
                   listResult, code, raised, exit>>

\* DeleteHTTPError without its except clause: the exception leaves main.
DeleteHTTPError_Uncaught ==
    /\ pc = "delete_wait"
    /\ \E c \in HttpCodes : code' = [code EXCEPT ![i] = c]
    /\ inflight' = inflight \ {i}
    /\ result' = [result EXCEPT ![i] = "HTTPError"]
    /\ Crash("HTTPError", "delete")
    /\ UNCHANGED <<env, argv, remote, key, pr_id, ref, caches, i, id, requests,
                   listResult, console>>

\* Lines 48-50: urlopen raises HTTPError; the handler prints e.code.
DeleteHTTPError ==
    /\ pc = "delete_wait"
    /\ \E c \in HttpCodes :
          /\ code' = [code EXCEPT ![i] = c]
          /\ console' = Append(console, [kind |-> "httperror", id |-> 0, code |-> c])
    /\ inflight' = inflight \ {i}
    /\ result' = [result EXCEPT ![i] = "HTTPError"]
    /\ i' = i + 1
    /\ pc' = "loop"
    /\ UNCHANGED <<env, argv, remote, key, pr_id, ref, caches, id, requests,
                   listResult, raised, exit>>

\* DeleteURLError sending the same request again after reporting the failure.
DeleteURLError_Retry ==
    /\ pc = "delete_wait"
    /\ inflight' = inflight \ {i}
    /\ result' = [result EXCEPT ![i] = "URLError"]
    /\ console' = Append(console, [kind |-> "urlerror", id |-> 0, code |-> 0])
    /\ pc' = "delete"
    /\ UNCHANGED <<env, argv, remote, key, pr_id, ref, caches, i, id, requests,
                   listResult, code, raised, exit>>

\* Lines 48, 51-52: urlopen raises a URLError that is not an HTTPError.
DeleteURLError ==
    /\ pc = "delete_wait"
    /\ inflight' = inflight \ {i}
    /\ result' = [result EXCEPT ![i] = "URLError"]
    /\ console' = Append(console, [kind |-> "urlerror", id |-> 0, code |-> 0])
    /\ i' = i + 1
    /\ pc' = "loop"
    /\ UNCHANGED <<env, argv, remote, key, pr_id, ref, caches, id, requests,
                   listResult, code, raised, exit>>

\* Lines 46-54: urlopen raises an exception that is neither HTTPError nor
\* URLError; no except clause matches it and it leaves main.
DeleteOtherError ==
    /\ pc = "delete_wait"
    /\ inflight' = inflight \ {i}
    /\ result' = [result EXCEPT ![i] = "OtherError"]
    /\ Crash("OtherError", "delete")
    /\ UNCHANGED <<env, argv, remote, key, pr_id, ref, caches, i, id, requests,
                   listResult, code, console>>

Next ==
    \/ ReadKey
    \/ ReadKeyMissing
    \/ ReadArg
    \/ ReadArgMissing
    \/ FormatRef
    \/ ListSend
    \/ ListOk
    \/ ListFail
    \/ LoopExit
    \/ SkipEntry
    \/ SelectEntry
    \/ PrintDeleting
    \/ DeleteSend
    \/ DeleteOk
    \/ DeleteHTTPError
    \/ DeleteURLError
    \/ DeleteOtherError

Spec == Init /\ [][Next]_vars

TypeOK ==
    /\ env \in Envs
    /\ argv \in Argvs
    /\ remote \in CacheLists
    /\ pc \in {"key", "arg", "ref", "list", "list_wait", "loop", "try",
               "delete", "delete_wait", "done", "crashed"}
    /\ i \in 0..(MaxCaches + 1)
    /\ id \in {0} \cup IdSet
    /\ inflight \subseteq 0..MaxCaches
    /\ exit \in {<<>>, <<0>>, <<1>>}

(***************************************************************************)
(* Vocabulary of the properties: what an observer of the network and of    *)
(* the console sees.                                                       *)
(***************************************************************************)

Terminated == exit # <<>>

ListSucceeded == listResult = "ok"

ListFailed == listResult \in {"HTTPError", "URLError", "OtherError"}

TokenPresent == "GITHUB_TOKEN" \in DOMAIN env

ArgPresent == Len(argv) >= 2

\* Positions of the provider's list whose ref is refs/pull/<id>/merge for the
\* id given on the command line.
MatchingPositions ==
    IF ArgPresent
    THEN {k \in DOMAIN remote : remote[k].ref = "refs/pull/" \o argv[2] \o "/merge"}
    ELSE {}

IsDelete(r) == r.method = "DELETE"

IsGet(r) == r.method = "GET"

DeleteRequests == SelectSeq(requests, IsDelete)

GetRequests == SelectSeq(requests, IsGet)

DeleteIssuedFor(k) ==
    \E n \in DOMAIN requests : IsDelete(requests[n]) /\ requests[n].id = remote[k].id

DeleteCountFor(k) ==
    Cardinality({n \in DOMAIN requests :
                    IsDelete(requests[n]) /\ requests[n].id = remote[k].id})

IsMatchingEntry(e) == ArgPresent /\ e.ref = "refs/pull/" \o argv[2] \o "/merge"

\* The matching entries in the provider's order.
MatchingEntries == SelectSeq(remote, IsMatchingEntry)

Completed(k) == result[k] \in {"ok", "HTTPError", "URLError", "OtherError"}

IsAttemptLine(l, k) == l.kind = "deleting" /\ l.id = remote[k].id

HasAttemptLine(k) == \E p \in DOMAIN console : IsAttemptLine(console[p], k)

AttemptLine(k) == CHOOSE p \in DOMAIN console : IsAttemptLine(console[p], k)

HasOutcomeLine(k) == HasAttemptLine(k) /\ AttemptLine(k) + 1 \in DOMAIN console

OutcomeLine(k) == console[AttemptLine(k) + 1]

HasSuccessLine(k) ==
    \E p \in DOMAIN console : console[p].kind = "success" /\ console[p].id = remote[k].id

OutcomeKinds == {"success", "httperror", "urlerror"}

\* The next matching position after k, if any.
NextMatching(k) ==
    {j \in MatchingPositions : j > k /\ \A m \in MatchingPositions : ~(k < m /\ m < j)}

(***************************************************************************)
(* C1.  The filter.                                                        *)
(***************************************************************************)

\* No entry whose ref differs from refs/pull/<id>/merge ever receives a DELETE.
OnlyMatchingDeleted ==
    \A k \in DOMAIN remote : DeleteIssuedFor(k) => k \in MatchingPositions

\* C1: in a run whose list request succeeds, a DELETE request is issued for a
\* listed entry if and only if its ref is exactly refs/pull/<id>/merge: no
\* other entry ever receives one, and when the run has ended every matching
\* entry has received one.
C1_DeleteIffRefMatches ==
    /\ OnlyMatchingDeleted
    /\ (ListSucceeded /\ Terminated) =>
          \A k \in DOMAIN remote : k \in MatchingPositions => DeleteIssuedFor(k)

\* What remains of C1 on the code: the filter is exact on every entry the loop
\* reaches, and a run that returns from main has deleted exactly the matches.
C1_HoldsOnCompletedRuns ==
    /\ OnlyMatchingDeleted
    /\ \A k \in DOMAIN caches : k < i => (DeleteIssuedFor(k) <=> k \in MatchingPositions)
    /\ exit = <<0>> =>
          \A k \in DOMAIN remote : DeleteIssuedFor(k) <=> k \in MatchingPositions

(***************************************************************************)
(* C2.  One attempt per match, whatever the other attempts did.            *)
(***************************************************************************)

\* C2: when the run has ended after a successful list request, exactly N
\* DELETE requests were attempted for the N matching entries, one for each,
\* whatever the outcomes of the others were.
C2_EveryMatchAttempted ==
    (ListSucceeded /\ Terminated) =>
        /\ Len(DeleteRequests) = Cardinality(MatchingPositions)
        /\ \A k \in MatchingPositions : DeleteCountFor(k) = 1 /\ Completed(k)

(***************************************************************************)
(* C3.  A failed list request.                                             *)
(***************************************************************************)

\* C3: once the list request has failed, the process has ended with status 1
\* on the exception urlopen raised, the list request was sent once, and no
\* DELETE request was or will be sent.
C3_ListFailureIsFatal ==
    ListFailed =>
        /\ exit = <<1>>
        /\ raised = <<[exc |-> listResult, at |-> "list"]>>
        /\ Len(GetRequests) = 1
        /\ DeleteRequests = <<>>
        /\ inflight = {}
        /\ ~ENABLED Next

C3_Witness ==
    /\ listResult = "URLError"
    /\ exit = <<1>>
    /\ MatchingPositions # {}

(***************************************************************************)
(* C4.  Missing token or argument.                                         *)
(***************************************************************************)

\* C4: when the token is not in the environment or the pull-request id is not
\* on the command line, no request is ever sent, the run never gets past the
\* read that fails, and it ends with status 1 on KeyError or IndexError.
C4_MissingInputIsFatal ==
    (~TokenPresent \/ ~ArgPresent) =>
        /\ requests = <<>>
        /\ inflight = {}
        /\ pc \in {"key", "arg", "crashed"}
        /\ pc = "arg" => TokenPresent
        /\ Terminated =>
              /\ exit = <<1>>
              /\ raised \in {<<[exc |-> "KeyError", at |-> "key"]>>,
                             <<[exc |-> "IndexError", at |-> "arg"]>>}
              /\ ~ENABLED Next

C4_Witness ==
    /\ TokenPresent
    /\ ~ArgPresent
    /\ raised = <<[exc |-> "IndexError", at |-> "arg"]>>
    /\ exit = <<1>>
    /\ remote # <<>>

(***************************************************************************)
(* C5.  A DELETE answered by an HTTP error.                                *)
(***************************************************************************)

\* C5: when the DELETE of an entry got an HTTP error response, the line after
\* the entry's attempt line is the HTTP-error line with the response's status
\* code, no success line names the entry, the exception did not leave main
\* (the loop is past the entry), and a run that has ended has attempted the
\* next matching entry.
C5_HTTPErrorCaught ==
    \A k \in DOMAIN remote :
        result[k] = "HTTPError" =>
            /\ code[k] \in HttpCodes
            /\ HasOutcomeLine(k)
            /\ OutcomeLine(k) = [kind |-> "httperror", id |-> 0, code |-> code[k]]
            /\ ~HasSuccessLine(k)
            /\ i > k
            /\ raised # <<>> => i # k
            /\ Terminated => \A j \in NextMatching(k) : DeleteIssuedFor(j)

C5_Witness ==
    \E k, j \in DOMAIN remote :
        /\ k < j
        /\ result[k] = "HTTPError"
        /\ code[k] = 404
        /\ result[j] = "ok"
        /\ exit = <<0>>

(***************************************************************************)
(* C6.  A DELETE failing below HTTP.                                       *)
(***************************************************************************)

\* C6: when the DELETE of an entry failed with anything other than an HTTP
\* error response, the line after the entry's attempt line is the generic
\* network-error line, the loop is past the entry, and the failure did not
\* end the process.
C6_TransportErrorCaught ==
    \A k \in DOMAIN remote :
        result[k] \in {"URLError", "OtherError"} =>
            /\ HasOutcomeLine(k)
            /\ OutcomeLine(k) = [kind |-> "urlerror", id |-> 0, code |-> 0]
            /\ i > k
            /\ raised = <<>>

\* What remains of C6 on the code: a URLError is caught, reported and passed.
C6_HoldsForURLError ==
    \A k \in DOMAIN remote :
        result[k] = "URLError" =>
            /\ HasOutcomeLine(k)
            /\ OutcomeLine(k) = [kind |-> "urlerror", id |-> 0, code |-> 0]
            /\ i > k

(***************************************************************************)
(* C7.  The exit status.                                                   *)
(***************************************************************************)

\* C7: a run with token and argument present whose list request succeeded ends
\* with status 0 however its DELETEs went, and a run ends with a non-zero
\* status only on an exception raised reading the token or the argument or
\* making the list request.
C7_ExitStatus ==
    /\ (Terminated /\ TokenPresent /\ ArgPresent /\ ListSucceeded) => exit = <<0>>
    /\ (Terminated /\ exit # <<0>>) =>
          /\ raised # <<>>
          /\ raised[1].at \in {"key", "arg", "list"}

\* What remains of C7 on the code: status 0 exactly when no exception left
\* main, and an exception leaves main from the two reads, the list request or
\* a DELETE raising neither HTTPError nor URLError.
C7_HoldsWithDeleteStage ==
    /\ Terminated => (exit = <<0>> <=> raised = <<>>)
    /\ raised # <<>> => raised[1].at \in {"key", "arg", "list", "delete"}
    /\ (raised # <<>> /\ raised[1].at = "delete") => raised[1].exc = "OtherError"

(***************************************************************************)
(* C8.  Sequential deletes, in list order.                                 *)
(***************************************************************************)

\* C8: at most one request is in flight at any time, the DELETE requests sent
\* so far are, in order, those of the first matching entries of the provider's
\* list, and when the DELETE of a matching entry has been sent the DELETE of
\* every earlier matching entry has completed.
C8_SequentialInListOrder ==
    /\ Cardinality(inflight) <= 1
    /\ Len(DeleteRequests) <= Len(MatchingEntries)
    /\ \A n \in DOMAIN DeleteRequests :
          n <= Len(MatchingEntries) => DeleteRequests[n].id = MatchingEntries[n].id
    /\ \A a, b \in MatchingPositions :
          (a < b /\ result[b] # "none") => Completed(a)

C8_Witness ==
    \E a, b \in MatchingPositions :
        /\ a < b
        /\ remote[a].id > remote[b].id
        /\ result[a] = "URLError"
        /\ result[b] = "pending"
        /\ inflight = {b}

(***************************************************************************)
(* C9.  The console protocol.                                              *)
(***************************************************************************)

\* C9: every attempt line names a matching entry and is printed before that
\* entry's DELETE is sent; it is followed by exactly one outcome line, after
\* which comes the next attempt line or nothing; a success line names the
\* entry of the attempt line before it and is printed only if that DELETE
\* succeeded; and no line names an entry that does not match.
C9_ConsoleProtocol ==
    /\ Len(DeleteRequests) <= Cardinality({p \in DOMAIN console : console[p].kind = "deleting"})
    /\ \A p \in DOMAIN console :
          console[p].kind = "deleting" =>
              /\ \E k \in MatchingPositions : remote[k].id = console[p].id
              /\ p = Len(console) => ~Terminated
              /\ p < Len(console) => console[p + 1].kind \in OutcomeKinds
    /\ \A p \in DOMAIN console :
          console[p].kind \in OutcomeKinds =>
              /\ p > 1
              /\ console[p - 1].kind = "deleting"
              /\ console[p].kind = "success" =>
                    /\ console[p].id = console[p - 1].id
                    /\ \E k \in MatchingPositions :
                          remote[k].id = console[p].id /\ result[k] = "ok"
    /\ \A k \in DOMAIN remote :
          k \notin MatchingPositions => ~HasAttemptLine(k) /\ ~HasSuccessLine(k)
    /\ Terminated => \A k \in DOMAIN remote : DeleteIssuedFor(k) => HasOutcomeLine(k)

\* What remains of C9 on the code: the same protocol, except that the last
\* attempt line of a run ended by an uncaught exception has no outcome line.
C9_HoldsUpToLastAttempt ==
    /\ Len(DeleteRequests) <= Cardinality({p \in DOMAIN console : console[p].kind = "deleting"})
    /\ \A p \in DOMAIN console :
          console[p].kind = "deleting" =>
              /\ \E k \in MatchingPositions : remote[k].id = console[p].id
              /\ p = Len(console) => (~Terminated \/ exit = <<1>>)
              /\ p < Len(console) => console[p + 1].kind \in OutcomeKinds
    /\ \A p \in DOMAIN console :
          console[p].kind \in OutcomeKinds =>
              /\ p > 1
              /\ console[p - 1].kind = "deleting"
              /\ console[p].kind = "success" =>
                    /\ console[p].id = console[p - 1].id
                    /\ \E k \in MatchingPositions :
                          remote[k].id = console[p].id /\ result[k] = "ok"
    /\ \A k \in DOMAIN remote :
          k \notin MatchingPositions => ~HasAttemptLine(k) /\ ~HasSuccessLine(k)

(***************************************************************************)
(* C10.  No retries.                                                       *)
(***************************************************************************)

\* C10: a run sends at most one GET, which comes before every DELETE, at most
\* one DELETE per listed entry, and no more DELETEs than there are matching
\* entries; no request is sent again after it failed.
C10_NoRetry ==
    /\ Len(GetRequests) <= 1
    /\ requests # <<>> => IsGet(requests[1])
    /\ \A k \in DOMAIN remote : DeleteCountFor(k) <= 1
    /\ \A n \in DOMAIN requests :
          IsDelete(requests[n]) => \E k \in DOMAIN remote : remote[k].id = requests[n].id
    /\ Len(DeleteRequests) <= Cardinality(MatchingPositions)
    /\ Len(requests) <= 1 + Cardinality(MatchingPositions)

C10_Witness ==
    /\ exit = <<0>>
    /\ Len(requests) = 3
    /\ \E k, j \in MatchingPositions :
          /\ k # j
          /\ result[k] = "URLError"
          /\ result[j] = "HTTPError"

====
